---------------------------- MODULE Spec2Model ----------------------------
(***************************************************************************)
(* create-valet-app: the template composition pipeline of                  *)
(* bin/create-valet-app.js as a state machine.                             *)
(*                                                                         *)
(* One run of main(): precondition checks, template copy, manifest patch,  *)
(* router / zustand toggles, path-alias rewrite, AGENTS.md rendering, then *)
(* the hand-off steps (MCP install, git init, package install).            *)
(*                                                                         *)
(* Text files are sequences of tokens.  Every quote character, "@", "/",   *)
(* "$" and "&" that can take part in a pattern match or in a replacement   *)
(* pattern is a token of its own; the text between them is kept as opaque  *)
(* chunks.  JSON files are kept as the value they parse to, together with  *)
(* whether they parse at all.                                              *)
(***************************************************************************)
EXTENDS Integers, Sequences, FiniteSets, TLC

VARIABLES pc, opts, env, tree, exitCode, log

vars == <<pc, opts, env, tree, exitCode, log>>

-----------------------------------------------------------------------------
(* Bounds of the model *)

MaxAliasLen == 2

-----------------------------------------------------------------------------
(* Characters and strings *)

DQ == "\""
SQ == "'"
\* the grave accent, written out because the character cannot appear in a string here
BT == "<grave>"
Quotes == {DQ, SQ}

Digits == {"0", "1", "2", "3", "4", "5", "6", "7", "8", "9"}

DigitVal(c) ==
  CASE c = "0" -> 0 [] c = "1" -> 1 [] c = "2" -> 2 [] c = "3" -> 3
    [] c = "4" -> 4 [] c = "5" -> 5 [] c = "6" -> 6 [] c = "7" -> 7
    [] c = "8" -> 8 [] c = "9" -> 9

\* the characters alias tokens are built from
AliasChars == {"a", "@", "/", "$", "&"}

RECURSIVE StringsUpTo(_)
StringsUpTo(n) ==
  IF n = 0 THEN {<<>>}
  ELSE LET S == StringsUpTo(n - 1)
       IN  S \cup {Append(s, c) : s \in S, c \in AliasChars}

DefaultAlias == <<"@">>

\* the scope of the first-party dependency "@archway/valet", as an alias token
ReservedScopes == {<<"@", "archway">>}

From(s, i) == SubSeq(s, i, Len(s))

IsPrefixAt(s, i, p) ==
  /\ i + Len(p) - 1 <= Len(s)
  /\ SubSeq(s, i, i + Len(p) - 1) = p

Contains(s, p) == \E i \in 1..Len(s) : IsPrefixAt(s, i, p)

RECURSIVE CountTok(_, _)
CountTok(s, t) ==
  IF s = <<>> THEN 0
  ELSE (IF Head(s) = t THEN 1 ELSE 0) + CountTok(Tail(s), t)

-----------------------------------------------------------------------------
(* String.prototype.replace: expansion of the replacement string.          *)
(* "$$" is "$", "$&" the match, "$" + grave / "$" + apostrophe the text    *)
(* before / after the match, "$n" / "$nn" a capture group when it exists;  *)
(* anything else is literal.                                               *)

RECURSIVE GetSubstitution(_, _, _, _, _)
GetSubstitution(repl, matched, groups, before, after) ==
  IF repl = <<>> THEN <<>>
  ELSE IF Head(repl) # "$" \/ Len(repl) = 1
  THEN <<Head(repl)>> \o GetSubstitution(Tail(repl), matched, groups, before, after)
  ELSE
    LET c     == repl[2]
        m     == Len(groups)
        rest2 == From(repl, 3)
        lit   == <<"$">> \o GetSubstitution(Tail(repl), matched, groups, before, after)
        one   == IF c \in Digits /\ DigitVal(c) >= 1 /\ DigitVal(c) <= m
                 THEN groups[DigitVal(c)]
                        \o GetSubstitution(rest2, matched, groups, before, after)
                 ELSE lit
    IN  CASE c = "$" -> <<"$">> \o GetSubstitution(rest2, matched, groups, before, after)
          [] c = "&" -> matched \o GetSubstitution(rest2, matched, groups, before, after)
          [] c = BT -> before \o GetSubstitution(rest2, matched, groups, before, after)
          [] c = SQ -> after \o GetSubstitution(rest2, matched, groups, before, after)
          [] c \in Digits ->
               IF Len(repl) >= 3 /\ repl[3] \in Digits
               THEN LET nn == 10 * DigitVal(c) + DigitVal(repl[3])
                    IN  IF nn >= 1 /\ nn <= m
                        THEN groups[nn]
                               \o GetSubstitution(From(repl, 4), matched, groups, before, after)
                        ELSE one
               ELSE one
          [] OTHER -> lit

-----------------------------------------------------------------------------
(* rewriteAliasInTree: txt.replace(/([\'\"])@\//g, "$1" + toPrefix)         *)

\* the pattern with any character where the path separator belongs: /([\'\"])@./
AliasMatchAtNoSlash(txt, i) ==
  /\ i + 2 <= Len(txt)
  /\ txt[i] \in Quotes
  /\ txt[i + 1] = "@"

\* /([\'\"])@\// at position i
AliasMatchAt(txt, i) ==
  /\ i + 2 <= Len(txt)
  /\ txt[i] \in Quotes
  /\ txt[i + 1] = "@"
  /\ txt[i + 2] = "/"

RECURSIVE ReplaceAliasFrom(_, _, _)
ReplaceAliasFrom(txt, i, toPrefix) ==
  IF i > Len(txt) THEN <<>>
  ELSE IF AliasMatchAt(txt, i)
  THEN GetSubstitution(<<"$", "1">> \o toPrefix,
                       SubSeq(txt, i, i + 2), << <<txt[i]>> >>,
                       SubSeq(txt, 1, i - 1), From(txt, i + 3))
         \o ReplaceAliasFrom(txt, i + 3, toPrefix)
  ELSE <<txt[i]>> \o ReplaceAliasFrom(txt, i + 1, toPrefix)

RewriteAliasText(txt, toPrefix) == ReplaceAliasFrom(txt, 1, toPrefix)

-----------------------------------------------------------------------------
(* The Vite alias key:                                                      *)
(* vc.replace(/(['"])@(['"])\s*:\s*path\.resolve/g,                        *)
(*            "$1" + pathAlias + "$2: path.resolve")                       *)

RECURSIVE SkipWs(_, _)
SkipWs(txt, j) ==
  IF j <= Len(txt) /\ txt[j] = " " THEN SkipWs(txt, j + 1) ELSE j

\* 0 when the pattern does not match at i, else the index of its last token
ViteMatchEnd(txt, i) ==
  IF /\ i + 2 <= Len(txt)
     /\ txt[i] \in Quotes
     /\ txt[i + 1] = "@"
     /\ txt[i + 2] \in Quotes
  THEN LET c == SkipWs(txt, i + 3)
       IN  IF c <= Len(txt) /\ txt[c] = ":"
           THEN LET r == SkipWs(txt, c + 1)
                IN  IF r <= Len(txt) /\ txt[r] = "path.resolve" THEN r ELSE 0
           ELSE 0
  ELSE 0

RECURSIVE ReplaceViteFrom(_, _, _)
ReplaceViteFrom(txt, i, pathAlias) ==
  IF i > Len(txt) THEN <<>>
  ELSE LET e == ViteMatchEnd(txt, i)
       IN  IF e > 0
           THEN GetSubstitution(
                  <<"$", "1">> \o pathAlias \o <<"$", "2", ":", " ", "path.resolve">>,
                  SubSeq(txt, i, e), << <<txt[i]>>, <<txt[i + 2]>> >>,
                  SubSeq(txt, 1, i - 1), From(txt, e + 1))
                  \o ReplaceViteFrom(txt, e + 1, pathAlias)
           ELSE <<txt[i]>> \o ReplaceViteFrom(txt, i + 1, pathAlias)

RewriteViteText(txt, pathAlias) == ReplaceViteFrom(txt, 1, pathAlias)

-----------------------------------------------------------------------------
(* Paths of the generated project *)

TemplateKinds == {"ts", "js", "hybrid"}

IsJS(template) == template = "js"

\* applyFeatureToggles: exts and files
Files(template) ==
  LET x  == IF IsJS(template) THEN "jsx" ELSE "tsx"
      s  == IF IsJS(template) THEN "js" ELSE "ts"
  IN  [ main        |-> IF x = "jsx" THEN "src/main.jsx" ELSE "src/main.tsx",
        app         |-> IF x = "jsx" THEN "src/App.jsx" ELSE "src/App.tsx",
        quickstart  |-> IF x = "jsx" THEN "src/pages/start/Quickstart.jsx"
                                     ELSE "src/pages/start/Quickstart.tsx",
        secondPage  |-> IF x = "jsx" THEN "src/pages/second/SecondPage.jsx"
                                     ELSE "src/pages/second/SecondPage.tsx",
        secondDir   |-> "src/pages/second",
        storeDir    |-> "src/store",
        viteConfig  |-> IF s = "js" THEN "vite.config.js" ELSE "vite.config.ts",
        tsconfigApp |-> "tsconfig.app.json",
        jsconfig    |-> "jsconfig.json",
        pkg         |-> "package.json" ]

SecondDirPaths == {"src/pages/second/SecondPage.tsx", "src/pages/second/SecondPage.jsx"}
StoreDirPaths  == {"src/store/appStore.ts", "src/store/appStore.js"}

\* files under src/ whose name matches /\.(t|j)sx?$/
SourcePaths ==
  { "src/main.tsx", "src/main.jsx", "src/App.tsx", "src/App.jsx",
    "src/pages/start/Quickstart.tsx", "src/pages/start/Quickstart.jsx",
    "src/presets/globalPresets.ts", "src/presets/globalPresets.js" }
    \cup SecondDirPaths \cup StoreDirPaths

ViteRoots == {"vite.config.ts", "vite.config.js"}

AgentsPath == "AGENTS.md"
GitignorePath == ".gitignore"
ForeignPath == "notes.txt"

TextPaths == SourcePaths \cup ViteRoots \cup {AgentsPath, GitignorePath, ForeignPath}

ConfPaths == {"tsconfig.app.json", "jsconfig.json"}

Dirs == {"src", "src/pages/second", "src/store"}

DirOf(path) ==
  IF path \in SecondDirPaths THEN "src/pages/second"
  ELSE IF path \in StoreDirPaths THEN "src/store"
  ELSE IF path \in SourcePaths THEN "src"
  ELSE "."

NoFile == [present |-> FALSE, text |-> <<>>]
File(txt) == [present |-> TRUE, text |-> txt]

-----------------------------------------------------------------------------
(* The whole-file replacements of applyFeatureToggles *)

ValetImport == <<DQ, "@", "archway/valet", DQ>>
RouterImport == <<DQ, "react-router-dom", DQ>>

\* mainNoRouter
MainNoRouter(isJS) ==
  <<"import React from ", DQ, "react", DQ, "; import ReactDOM from ", DQ,
    "react-dom/client", DQ, "; import ", DQ, "@", "/", "presets/globalPresets", DQ,
    "; import { App } from ", DQ, "@", "/", "App", DQ, "; ",
    IF isJS THEN "ReactDOM.createRoot(root).render(<App />);"
            ELSE "ReactDOM.createRoot(root!).render(<App />);">>

\* appNoRouter: the JS and TS strings are the same
AppNoRouter(isJS) ==
  <<"import { useInitialTheme } from ">> \o ValetImport
    \o <<"; import QuickstartPage from ", DQ, "@", "/", "pages/start/Quickstart", DQ,
         "; export function App() { useInitialTheme(fonts); ",
         "return <QuickstartPage />; }">>

\* qsNoNav: the JS and TS strings are the same
QsNoNav(isJS) ==
  <<"import { Surface, Stack, Box, Typography } from ">> \o ValetImport
    \o <<"; export default function QuickstartPage() { <Box alignX=", DQ, "center", DQ,
         " centerContent> Welcome to Valet }">>

\* appRouterMinimal
AppRouterMinimal(isJS) ==
  <<"import React, { Suspense, lazy } from ", DQ, "react", DQ,
    "; import { Routes, Route } from ">> \o RouterImport
    \o <<"; import { useInitialTheme, Surface, Stack, Typography } from ">>
    \o ValetImport
    \o <<IF isJS THEN "; const page = (p) => lazy(...); "
                 ELSE "; const page = <T>(p: () => Promise<T>) => lazy(...); ",
         "const QuickstartPage = page(() => import(", DQ, "@", "/",
         "pages/start/Quickstart", DQ, ")); export function App() { useInitialTheme(fonts); ",
         "<Suspense fallback={Fallback}>", "<Routes>", "<Route path=", DQ, "/", DQ,
         " element={<QuickstartPage />} />", "</Routes>", "</Suspense>", " }">>

\* qsMinimal: the same text as qsNoNav (the \" escapes are plain quotes)
QsMinimal(isJS) ==
  <<"import { Surface, Stack, Box, Typography } from ">> \o ValetImport
    \o <<"; export default function QuickstartPage() { <Box alignX=", DQ, "center", DQ,
         " centerContent> Welcome to Valet }">>

\* ensureGitignore
GitignoreContents == <<"# Logs ... node_modules/ ... dist ... .vscode-test">>

-----------------------------------------------------------------------------
(* The packaged templates (templates/<kind>/...), read-only data *)

TmplMain(isJS) ==
  <<"import React from ", DQ, "react", DQ, "; import ReactDOM from ", DQ,
    "react-dom/client", DQ, "; import { BrowserRouter } from ">> \o RouterImport
    \o <<"; import ", DQ, "@", "/", "presets/globalPresets", DQ,
         "; import { App } from ", DQ, "@", "/", "App", DQ, "; ",
         IF isJS THEN "createRoot(root).render(<BrowserRouter><App /></BrowserRouter>);"
                 ELSE "createRoot(root!).render(<BrowserRouter><App /></BrowserRouter>);">>

TmplApp(isJS) ==
  <<"import React, { Suspense, lazy } from ", DQ, "react", DQ,
    "; import { Routes, Route } from ">> \o RouterImport
    \o <<"; import { useInitialTheme } from ">> \o ValetImport
    \o <<"; const QuickstartPage = page(() => import(", DQ, "@", "/",
         "pages/start/Quickstart", DQ, ")); const SecondPage = page(() => import(",
         DQ, "@", "/", "pages/second/SecondPage", DQ, ")); ",
         "<Suspense fallback={Fallback}>", "<Routes>",
         "<Route path=", DQ, "/", DQ, " element={<QuickstartPage />} />",
         "<Route path=", DQ, "/second", DQ, " element={<SecondPage />} />",
         "</Routes>", "</Suspense>">>

TmplQuickstart(isJS) ==
  <<"import { useNavigate } from ">> \o RouterImport
    \o <<"; import { Surface, Stack, Button, Typography } from ">> \o ValetImport
    \o <<"; export default function QuickstartPage() { navigate(", SQ, "/second", SQ, ") }">>

TmplSecondPage(isJS) ==
  <<"import { useNavigate } from ">> \o RouterImport
    \o <<"; import { Surface, Stack, Button } from ">> \o ValetImport
    \o <<"; export default function SecondPage() { navigate(", SQ, "/", SQ, ") }">>

TmplStore(isJS) ==
  <<"import { create } from ", DQ, "zustand", DQ, "; export const useAppStore = create(...);">>

TmplPresets(isJS) ==
  <<"// presets; ", "@", "/", " maps to src; import { definePreset } from ">>
    \o ValetImport \o <<"; import ", SQ, "@", "/", "presets/fonts", SQ, ";">>

\* vite.config.* with the given key in resolve.alias
ViteWithKey(isJS, key) ==
  LET q == IF isJS THEN DQ ELSE SQ
  IN  <<"import path from ", q, "path", q, "; export default { resolve: { alias: { ", q>>
        \o key
        \o <<q, ":", " ", "path.resolve", "(__dirname, ", q, "./src", q, ") } } }">>

TmplVite(isJS) == ViteWithKey(isJS, <<"@">>)

\* the AGENTS.md a template directory ships
TmplAgents == <<"# AGENTS.md - create-valet-app starter (template copy)">>

TmplGitignore == <<"node_modules dist">>

OldKey == <<"@", "/", "*">>

NoConf == [present |-> FALSE, parses |-> FALSE, hasPaths |-> FALSE, paths |-> <<>>]

\* tsconfig.app.json / jsconfig.json: compilerOptions.paths as an ordered
\* list of entries; parses is FALSE when the file carries comments
TmplConf(parses) ==
  [present |-> TRUE, parses |-> parses, hasPaths |-> TRUE,
   paths |-> << [key |-> OldKey, vals |-> << <<"src", "/", "*">> >>] >>]

DepNames == {"@archway/valet", "react-router-dom", "zustand"}

NoDep == <<>>

NoManifest ==
  [present |-> FALSE, kind |-> "object", name |-> <<>>, hasDeps |-> FALSE,
   deps |-> [d \in DepNames |-> NoDep], canonical |-> TRUE]

ManifestOf(kind, hasDeps, deps) ==
  [present |-> TRUE, kind |-> kind,
   name |-> IF kind = "object" THEN <<"valet", "-", "template">> ELSE <<>>,
   hasDeps |-> hasDeps, deps |-> deps, canonical |-> TRUE]

\* the same value in a layout other than the one writeJSON produces
\* (JSON.stringify(obj, null, 2) and a final newline)
Unformatted(m) == [m EXCEPT !.canonical = FALSE]

FullDeps ==
  [d \in DepNames |->
     IF d = "@archway/valet" THEN <<"^", "0", ".", "29", ".0">>
     ELSE IF d = "react-router-dom" THEN <<"^", "7", ".", "0", ".0">>
     ELSE <<"^", "5", ".", "0", ".0">>]

NoDeps == [d \in DepNames |-> NoDep]

\* package.json as the template directory can hold it: the well-formed
\* manifests, then a missing file and the contents readJSONSafe or main
\* have to cope with
ValidManifests ==
  { ManifestOf("object", TRUE, FullDeps),
    ManifestOf("object", TRUE, NoDeps),
    ManifestOf("object", FALSE, NoDeps) }

InvalidManifests ==
  { NoManifest } \cup
  { ManifestOf(k, FALSE, NoDeps) : k \in {"unparseable", "falsy", "string", "number", "array"} }

TemplateTree(template, e) ==
  LET js == IsJS(template)
      f  == Files(template)
      store   == IF js THEN "src/store/appStore.js" ELSE "src/store/appStore.ts"
      presets == IF js THEN "src/presets/globalPresets.js" ELSE "src/presets/globalPresets.ts"
  IN  [ text |-> [p \in TextPaths |->
                    IF p = f.main THEN File(TmplMain(js))
                    ELSE IF p = f.app THEN File(TmplApp(js))
                    ELSE IF p = f.quickstart THEN File(TmplQuickstart(js))
                    ELSE IF p = f.secondPage THEN File(TmplSecondPage(js))
                    ELSE IF p = store THEN File(TmplStore(js))
                    ELSE IF p = presets THEN File(TmplPresets(js))
                    ELSE IF p = f.viteConfig THEN File(TmplVite(js))
                    ELSE IF p = AgentsPath /\ e.tmplExtras THEN File(TmplAgents)
                    ELSE IF p = GitignorePath /\ e.tmplExtras THEN File(TmplGitignore)
                    ELSE NoFile],
        pkg  |-> e.manifest,
        conf |-> [c \in ConfPaths |->
                    IF (js /\ c = f.jsconfig) \/ (~js /\ c = f.tsconfigApp)
                    THEN TmplConf(e.confParses) ELSE NoConf] ]

-----------------------------------------------------------------------------
(* The target directory *)

InitTree(e) ==
  [ targetExists |-> e.target # "absent",
    text |-> [p \in TextPaths |->
                IF p = ForeignPath /\ e.target = "nonempty"
                THEN File(<<"notes of the owner">>) ELSE NoFile],
    dirs |-> {},
    pkg  |-> NoManifest,
    conf |-> [c \in ConfPaths |-> NoConf] ]

\* a check that looks for an existing package.json only
TargetHasManifest(t) ==
  /\ t.targetExists
  /\ t.pkg.present

\* fs.existsSync(targetDir) && fs.readdirSync(targetDir).length > 0
TargetNotEmpty(t) ==
  /\ t.targetExists
  /\ \/ \E p \in TextPaths : t.text[p].present
     \/ t.pkg.present
     \/ \E c \in ConfPaths : t.conf[c].present
     \/ t.dirs # {}

\* fs.mkdirSync(targetDir, { recursive: true })
MkdirTarget(t) == [t EXCEPT !.targetExists = TRUE]

\* copyDir(templateRoot, targetDir)
CopyDir(t, template, e) ==
  LET src == TemplateTree(template, e)
  IN  [t EXCEPT !.targetExists = TRUE,
                !.dirs = @ \cup Dirs,
                !.text = [p \in TextPaths |->
                            IF src.text[p].present THEN src.text[p] ELSE @[p]],
                !.pkg  = IF src.pkg.present THEN src.pkg ELSE @,
                !.conf = [c \in ConfPaths |->
                            IF src.conf[c].present THEN src.conf[c] ELSE @[c]]]

\* writeJSON: the file becomes JSON.stringify(obj, null, 2) + "\n"
WriteJSON(pkg) == [pkg EXCEPT !.canonical = TRUE]

\* fs.writeFileSync(path, text)
WriteFile(t, path, txt) == [t EXCEPT !.text[path] = File(txt)]

\* if (fs.existsSync(dir)) fs.rmSync(dir, { recursive: true, force: true })
RmDir(t, dir) ==
  IF dir \in t.dirs
  THEN [t EXCEPT !.dirs = @ \ {dir},
                 !.text = [p \in TextPaths |-> IF DirOf(p) = dir THEN NoFile ELSE @[p]]]
  ELSE t

-----------------------------------------------------------------------------
(* Manifest Merger *)

UpperCase == <<"A", "B", "C", "D", "E", "F", "G", "H", "I", "J", "K", "L", "M",
               "N", "O", "P", "Q", "R", "S", "T", "U", "V", "W", "X", "Y", "Z">>
LowerCase == <<"a", "b", "c", "d", "e", "f", "g", "h", "i", "j", "k", "l", "m",
               "n", "o", "p", "q", "r", "s", "t", "u", "v", "w", "x", "y", "z">>

ToLowerCase(c) ==
  IF \E i \in DOMAIN UpperCase : UpperCase[i] = c
  THEN LowerCase[CHOOSE i \in DOMAIN UpperCase : UpperCase[i] = c]
  ELSE c

\* [a-z0-9-_.]
NameChars == {LowerCase[i] : i \in DOMAIN LowerCase} \cup Digits \cup {"-", "_", "."}

RECURSIVE StripTrailingSeps(_)
StripTrailingSeps(s) ==
  IF s # <<>> /\ s[Len(s)] = "/" THEN StripTrailingSeps(SubSeq(s, 1, Len(s) - 1)) ELSE s

RECURSIVE LastSegment(_)
LastSegment(s) ==
  IF \E i \in DOMAIN s : s[i] = "/"
  THEN LastSegment(Tail(s))
  ELSE s

\* path.basename
Basename(s) == LastSegment(StripTrailingSeps(s))

\* 'valet-app'
FallbackName == <<"v", "a", "l", "e", "t", "-", "a", "p", "p">>

\* the slug without the lowercasing
NormalizePkgNameKeepsCase(input) ==
  LET b    == Basename(input)
      base == [i \in DOMAIN b |-> IF b[i] \in NameChars THEN b[i] ELSE "-"]
  IN  IF base # <<>> THEN base ELSE FallbackName

\* normalizePkgName
NormalizePkgName(input) ==
  LET b    == Basename(input)
      base == [i \in DOMAIN b |->
                 IF ToLowerCase(b[i]) \in NameChars THEN ToLowerCase(b[i]) ELSE "-"]
  IN  IF base # <<>> THEN base ELSE FallbackName

\* the packaged configuration taking precedence over the environment
ResolveValetMinorConfigFirst(e) ==
  IF e.cfgMinor # <<>> THEN e.cfgMinor
  ELSE IF e.envMinor # <<>> THEN e.envMinor
  ELSE <<e.toolVersion[1], ".", e.toolVersion[2]>>

\* resolveValetMinor
ResolveValetMinor(e) ==
  IF e.envMinor # <<>> THEN e.envMinor
  ELSE IF e.cfgMinor # <<>> THEN e.cfgMinor
  ELSE LET ver   == IF e.toolVersion # <<>> THEN e.toolVersion ELSE <<"0", "30", "0">>
           major == IF Len(ver) >= 1 /\ ver[1] # "" THEN ver[1] ELSE "0"
           minor == IF Len(ver) >= 2 /\ ver[2] # "" THEN ver[2] ELSE "30"
       IN  <<major, ".", minor>>

\* valetMinorRange
ValetMinorRange(minor) == <<"^">> \o minor \o <<".0">>

\* readJSONSafe(p) followed by a truthiness test: the file is there, is
\* JSON, and its value is not null, 0, "" or false
ReadsTruthy(pkg) ==
  /\ pkg.present
  /\ pkg.kind \in {"object", "array", "string", "number"}

\* main, lines 270-285: "ok" is FALSE when process.exit(1) is reached or the
\* property assignment on a primitive throws (strict mode)
PatchManifest(t, o, e) ==
  LET pkg == t.pkg
  IN  IF ~ReadsTruthy(pkg) THEN [ok |-> FALSE, tree |-> t]
      ELSE IF pkg.kind \in {"string", "number"} THEN [ok |-> FALSE, tree |-> t]
      ELSE IF pkg.kind = "array"
      THEN \* name and dependencies become properties JSON.stringify drops
           [ok |-> TRUE, tree |-> [t EXCEPT !.pkg = WriteJSON(pkg)]]
      ELSE [ok |-> TRUE,
            tree |-> [t EXCEPT !.pkg =
                        WriteJSON([pkg EXCEPT !.name = NormalizePkgName(o.dir),
                                              !.hasDeps = TRUE,
                                              !.deps["@archway/valet"] =
                                                 ValetMinorRange(ResolveValetMinor(e))])]]

\* ensureGitignore
EnsureGitignore(t) ==
  IF t.text[GitignorePath].present THEN t
  ELSE WriteFile(t, GitignorePath, GitignoreContents)

\* a removal that drops the dependency map when the entry is not there
DeleteDepDropsMap(pkg, dep) ==
  IF pkg.kind = "object" /\ pkg.hasDeps /\ pkg.deps[dep] # NoDep
  THEN [pkg EXCEPT !.deps[dep] = NoDep]
  ELSE [pkg EXCEPT !.hasDeps = FALSE]

\* the mutators handed to safePkgMutate
DeleteDep(pkg, dep) ==
  IF pkg.kind = "object" /\ pkg.hasDeps /\ pkg.deps[dep] # NoDep
  THEN [pkg EXCEPT !.deps[dep] = NoDep]
  ELSE pkg

\* safePkgMutate
SafePkgMutate(t, dep) ==
  IF ~ReadsTruthy(t.pkg) THEN t
  ELSE [t EXCEPT !.pkg = WriteJSON(DeleteDep(t.pkg, dep))]

-----------------------------------------------------------------------------
(* Feature Toggle Engine *)

\* the router-off branch without the rewrite of the entry point
NoRouterShapeKeepsMain(t, o) ==
  LET f  == Files(o.template)
      js == IsJS(o.template)
      t1 == SafePkgMutate(t, "react-router-dom")
      t3 == WriteFile(t1, f.app, AppNoRouter(js))
      t4 == WriteFile(t3, f.quickstart, QsNoNav(js))
  IN  RmDir(t4, f.secondDir)

\* the branch taken when the router is off
NoRouterShape(t, o) ==
  LET f  == Files(o.template)
      js == IsJS(o.template)
      t1 == SafePkgMutate(t, "react-router-dom")
      t2 == WriteFile(t1, f.main, MainNoRouter(js))
      t3 == WriteFile(t2, f.app, AppNoRouter(js))
      t4 == WriteFile(t3, f.quickstart, QsNoNav(js))
  IN  RmDir(t4, f.secondDir)

\* the minimal branch without the rewrite of the root component
MinimalShapeKeepsApp(t, o) ==
  LET f  == Files(o.template)
      js == IsJS(o.template)
      t2 == WriteFile(t, f.quickstart, QsMinimal(js))
  IN  RmDir(t2, f.secondDir)

\* the branch taken when the router is on and minimal is set
MinimalShape(t, o) ==
  LET f  == Files(o.template)
      js == IsJS(o.template)
      t1 == WriteFile(t, f.app, AppRouterMinimal(js))
      t2 == WriteFile(t1, f.quickstart, QsMinimal(js))
  IN  RmDir(t2, f.secondDir)

\* the toggle with the minimal test made before the router test
RouterToggleMinimalFirst(t, o) ==
  IF o.minimal THEN MinimalShape(t, o)
  ELSE IF ~o.router THEN NoRouterShape(t, o)
  ELSE t

\* the toggle with the minimal test left out of the router-on branch
RouterToggleNoMinimalTest(t, o) ==
  IF ~o.router THEN NoRouterShape(t, o) ELSE MinimalShape(t, o)

\* applyFeatureToggles, "Router toggle"
RouterToggle(t, o) ==
  IF ~o.router THEN NoRouterShape(t, o)
  ELSE IF o.minimal THEN MinimalShape(t, o)
  ELSE t

\* the toggle without the safePkgMutate call
ZustandToggleDirOnly(t, o) ==
  IF ~o.zustand THEN RmDir(t, Files(o.template).storeDir) ELSE t

\* applyFeatureToggles, "Zustand toggle"
ZustandToggle(t, o) ==
  IF ~o.zustand
  THEN RmDir(SafePkgMutate(t, "zustand"), Files(o.template).storeDir)
  ELSE t

\* The trees a toggle passes through, one per filesystem write or deletion
\* it makes: element k is the tree when the k-th of them starts, the last
\* element is the tree the toggle leaves.
RouterTrail(t, o) ==
  LET f  == Files(o.template)
      js == IsJS(o.template)
  IN  IF ~o.router
      THEN LET t1 == SafePkgMutate(t, "react-router-dom")
               t2 == WriteFile(t1, f.main, MainNoRouter(js))
               t3 == WriteFile(t2, f.app, AppNoRouter(js))
               t4 == WriteFile(t3, f.quickstart, QsNoNav(js))
           IN  <<t>> \o (IF ReadsTruthy(t.pkg) THEN <<t1>> ELSE <<>>)
                    \o <<t2, t3, t4>>
                    \o (IF f.secondDir \in t4.dirs THEN <<RmDir(t4, f.secondDir)>> ELSE <<>>)
      ELSE IF o.minimal
      THEN LET t1 == WriteFile(t, f.app, AppRouterMinimal(js))
               t2 == WriteFile(t1, f.quickstart, QsMinimal(js))
           IN  <<t, t1, t2>>
                 \o (IF f.secondDir \in t2.dirs THEN <<RmDir(t2, f.secondDir)>> ELSE <<>>)
      ELSE <<t>>

ZustandTrail(t, o) ==
  LET f  == Files(o.template)
      t1 == SafePkgMutate(t, "zustand")
  IN  IF ~o.zustand
      THEN <<t>> \o (IF ReadsTruthy(t.pkg) THEN <<t1>> ELSE <<>>)
               \o (IF f.storeDir \in t1.dirs THEN <<RmDir(t1, f.storeDir)>> ELSE <<>>)
      ELSE <<t>>

\* no write or deletion fails
NoFault == [stage |-> "none", op |-> 0]

\* the failures of one write or deletion of a toggle: which toggle, and
\* which of its writes and deletions throws
Faults ==
  {NoFault} \cup [stage : {"router", "zustand"}, op : 1..5]

\* an error handler around every write and deletion of the toggles
FaultSwallowed(trail, stage, e) == 0

\* the write or deletion of this toggle that throws (0: none does); nothing
\* in applyFeatureToggles or main catches it
FaultAt(trail, stage, e) ==
  IF e.fault.stage = stage /\ e.fault.op \in 1..(Len(trail) - 1)
  THEN e.fault.op
  ELSE 0

-----------------------------------------------------------------------------
(* Alias Rewriter *)

NewKey(pathAlias) == pathAlias \o <<"/", "*">>

HasKey(paths, k) == \E i \in DOMAIN paths : paths[i].key = k

ValsOf(paths, k) == paths[CHOOSE i \in DOMAIN paths : paths[i].key = k].vals

\* j.compilerOptions.paths[pathAlias + '/*'] = j.compilerOptions.paths['@/*'];
\* delete j.compilerOptions.paths['@/*']
RenamePathKey(paths, pathAlias) ==
  IF ~HasKey(paths, OldKey) THEN paths
  ELSE LET v       == ValsOf(paths, OldKey)
           k       == NewKey(pathAlias)
           set     == IF HasKey(paths, k)
                      THEN [i \in DOMAIN paths |->
                              IF paths[i].key = k THEN [key |-> k, vals |-> v]
                              ELSE paths[i]]
                      ELSE Append(paths, [key |-> k, vals |-> v])
           Keep(x) == x.key # OldKey
       IN  IF k = OldKey THEN paths ELSE SelectSeq(set, Keep)

\* raw.split('"@/*"').join('"' + pathAlias + '/*"'): every quoted "@/*", key or value
SwapQuotedKey(paths, pathAlias) ==
  LET Swap(str) == IF str = OldKey THEN NewKey(pathAlias) ELSE str
  IN  [i \in DOMAIN paths |->
         [key  |-> Swap(paths[i].key),
          vals |-> [n \in DOMAIN paths[i].vals |-> Swap(paths[i].vals[n])]]]

\* the branch without the catch: a file that does not parse is left alone
RewriteConfParsedOnly(conf, pathAlias) ==
  IF ~conf.present THEN conf
  ELSE IF conf.parses /\ conf.hasPaths
  THEN [conf EXCEPT !.paths = RenamePathKey(@, pathAlias)]
  ELSE conf

\* the tsconfig.app.json / jsconfig.json branch of applyFeatureToggles
RewriteConf(conf, pathAlias) ==
  IF ~conf.present THEN conf
  ELSE IF conf.parses
  THEN IF conf.hasPaths
       THEN [conf EXCEPT !.paths = RenamePathKey(@, pathAlias)]
       ELSE conf
  ELSE [conf EXCEPT !.paths = SwapQuotedKey(@, pathAlias)]

\* rewriteAliasInTree(srcDir, '@/', pathAlias + '/')
RewriteAliasInTree(t, toPrefix) ==
  [t EXCEPT !.text =
     [p \in TextPaths |->
        IF p \in SourcePaths /\ @[p].present
        THEN File(RewriteAliasText(@[p].text, toPrefix))
        ELSE @[p]]]

\* applyFeatureToggles, "Path alias token change across code and config"
PathAlias(t, o) ==
  IF o.pathAlias # <<>> /\ o.pathAlias # DefaultAlias
  THEN LET f  == Files(o.template)
           js == IsJS(o.template)
           t1 == IF t.text[f.viteConfig].present
                 THEN WriteFile(t, f.viteConfig,
                                RewriteViteText(t.text[f.viteConfig].text, o.pathAlias))
                 ELSE t
           t2 == IF ~js
                 THEN [t1 EXCEPT !.conf[f.tsconfigApp] = RewriteConf(@, o.pathAlias)]
                 ELSE [t1 EXCEPT !.conf[f.jsconfig] = RewriteConf(@, o.pathAlias)]
       IN  RewriteAliasInTree(t2, o.pathAlias \o <<"/">>)
  ELSE t

-----------------------------------------------------------------------------
(* Documentation Renderer *)

\* templates/AGENTS.base.md
AgentsBase ==
  <<"# AGENTS.md - create-valet-app starter ... ", "{{LANG_NOTE}}",
    " ## valet-mcp ... ## Agent-Friendly Commands ", "{{AGENT_COMMANDS}}",
    " ## Project Features ", "{{FEATURES_LIST}}",
    " ## Definition of Done (Agents) ", "{{DOD_LIST}}">>

\* String.prototype.replace with a string pattern: the first occurrence only
ReplaceFirst(txt, pattern, repl) ==
  IF \E i \in DOMAIN txt : txt[i] = pattern
  THEN LET i == CHOOSE k \in DOMAIN txt :
                  /\ txt[k] = pattern
                  /\ \A n \in 1..(k - 1) : txt[n] # pattern
           before == SubSeq(txt, 1, i - 1)
           after  == From(txt, i + 1)
       IN  before \o GetSubstitution(repl, <<pattern>>, <<>>, before, after) \o after
  ELSE txt

LangNote(template) ==
  IF template = "js"
  THEN <<"This is a JavaScript-only template; there is no typecheck step.">>
  ELSE IF template = "ts"
  THEN <<"This is a TypeScript template.">>
  ELSE <<"This is a hybrid template: TypeScript by default, JavaScript files allowed.">>

TypecheckCommand == "- Typecheck: npm run -s typecheck:agent"

\* the command list without the test on the template kind
AgentCommandsAlways(template) ==
  <<"- Lint: npm run -s lint:agent", "- Fix lint: npm run -s lint:fix:agent",
    TypecheckCommand,
    "- Format check: npm run -s format:agent",
    "- Format write: npm run -s format:fix:agent",
    "- Build: npm run -s build:agent">>

AgentCommands(template) ==
  <<"- Lint: npm run -s lint:agent", "- Fix lint: npm run -s lint:fix:agent">>
    \o (IF template # "js" THEN <<TypecheckCommand>> ELSE <<>>)
    \o <<"- Format check: npm run -s format:agent",
         "- Format write: npm run -s format:fix:agent",
         "- Build: npm run -s build:agent">>

FeaturesList(o) ==
  LET a == IF o.pathAlias # <<>> THEN o.pathAlias ELSE DefaultAlias
  IN  <<"- Router: ", IF o.router THEN "enabled" ELSE "disabled",
        "- Zustand: ", IF o.zustand THEN "enabled" ELSE "disabled",
        "- Minimal mode: ", IF o.minimal THEN "on" ELSE "off",
        "- Path alias token: ", BT>> \o a \o <<BT, " (import from ", BT>>
        \o a \o <<"/", "...", BT, ")">>

TypecheckDone == "- TypeScript typechecks clean."

DodList(template) ==
  <<IF template # "js" THEN TypecheckDone ELSE "- Typecheck: n/a for JS template.",
    "- Build succeeds.", "- Lint/format clean or auto-fixed.">>

RenderAgents(base, o) ==
  LET r1 == ReplaceFirst(base, "{{LANG_NOTE}}", LangNote(o.template))
      r2 == ReplaceFirst(r1, "{{AGENT_COMMANDS}}", AgentCommands(o.template))
      r3 == ReplaceFirst(r2, "{{FEATURES_LIST}}", FeaturesList(o))
  IN  ReplaceFirst(r3, "{{DOD_LIST}}", DodList(o.template))

\* the reads of templates/AGENTS.base.md generateAgentsDoc makes
ReadsOfAgentsDoc(o) == IF o.mcp THEN <<"readBase">> ELSE <<>>

\* a renderer that only returns when the file is not wanted
GenerateAgentsDocKeepsCopy(t, o, e) ==
  IF ~o.mcp THEN t
  ELSE IF ~e.baseReadable THEN t
  ELSE WriteFile(t, AgentsPath, RenderAgents(AgentsBase, o))

\* generateAgentsDoc
GenerateAgentsDoc(t, o, e) ==
  IF ~o.mcp
  THEN [t EXCEPT !.text[AgentsPath] = NoFile]
  ELSE IF ~e.baseReadable THEN t
  ELSE WriteFile(t, AgentsPath, RenderAgents(AgentsBase, o))

-----------------------------------------------------------------------------
(* One run of main() *)

DirNames == {<<"a", "p", "p">>}

OptsOver(templates, aliases) ==
  [ dir : DirNames, template : templates, router : BOOLEAN, zustand : BOOLEAN,
    minimal : BOOLEAN, pathAlias : aliases, mcp : BOOLEAN,
    git : {TRUE}, install : {TRUE} ]

EnvOver(targets, manifests, parses, readable) ==
  [ target : targets, manifest : manifests, confParses : parses,
    baseReadable : readable, tmplExtras : BOOLEAN,
    envMinor : {<<>>}, cfgMinor : {<<>>}, toolVersion : {<<"0", "30", "3">>},
    fault : {NoFault} ]

Running == -1

InitOver(os, es) ==
  /\ opts \in os
  /\ env \in es
  /\ pc = "start"
  /\ tree = InitTree(env)
  /\ exitCode = Running
  /\ log = <<>>

Fail ==
  /\ pc' = "failed"
  /\ exitCode' = 1
  /\ UNCHANGED <<opts, env, tree, log>>

\* an exception leaves main: main().catch prints it and exits with 1; the
\* tree stays as the throwing call found it
Thrown(t) ==
  /\ tree' = t
  /\ pc' = "failed"
  /\ exitCode' = 1
  /\ UNCHANGED <<opts, env, log>>

\* main, lines 249-261
Precheck ==
  /\ pc = "start"
  /\ IF opts.dir = <<>> \/ opts.template \notin TemplateKinds \/ TargetNotEmpty(tree)
     THEN Fail
     ELSE /\ tree' = MkdirTarget(tree)
          /\ pc' = "copy"
          /\ UNCHANGED <<opts, env, exitCode, log>>

\* main, lines 265-266
CopyTemplate ==
  /\ pc = "copy"
  /\ tree' = CopyDir(tree, opts.template, env)
  /\ log' = Append(log, "copy")
  /\ pc' = "patch"
  /\ UNCHANGED <<opts, env, exitCode>>

\* main, lines 268-288
PatchAppPkg ==
  /\ pc = "patch"
  /\ LET r == PatchManifest(tree, opts, env)
     IN  IF r.ok
         THEN /\ tree' = EnsureGitignore(r.tree)
              /\ log' = Append(log, "manifest")
              /\ pc' = "router"
              /\ UNCHANGED <<opts, env, exitCode>>
         ELSE Fail

\* applyFeatureToggles, lines 416-639
ApplyRouterToggle ==
  /\ pc = "router"
  /\ LET trail == RouterTrail(tree, opts)
         k     == FaultAt(trail, "router", env)
     IN  IF k > 0
         THEN Thrown(trail[k])
         ELSE /\ tree' = RouterToggle(tree, opts)
              /\ log' = Append(log, "router")
              /\ pc' = "zustand"
              /\ UNCHANGED <<opts, env, exitCode>>

\* applyFeatureToggles, lines 641-648
ApplyZustandToggle ==
  /\ pc = "zustand"
  /\ LET trail == ZustandTrail(tree, opts)
         k     == FaultAt(trail, "zustand", env)
     IN  IF k > 0
         THEN Thrown(trail[k])
         ELSE /\ tree' = ZustandToggle(tree, opts)
              /\ log' = Append(log, "zustand")
              /\ pc' = "alias"
              /\ UNCHANGED <<opts, env, exitCode>>

\* the alias rewrite placed ahead of the router and store toggles
ApplyPathAliasBeforeToggles ==
  /\ pc = "router"
  /\ \A i \in DOMAIN log : log[i] # "alias"
  /\ tree' = PathAlias(tree, opts)
  /\ log' = Append(log, "alias")
  /\ UNCHANGED <<pc, opts, env, exitCode>>

\* applyFeatureToggles, lines 650-695
ApplyPathAlias ==
  /\ pc = "alias"
  /\ tree' = PathAlias(tree, opts)
  /\ log' = Append(log, "alias")
  /\ pc' = "docs"
  /\ UNCHANGED <<opts, env, exitCode>>

\* main, lines 296-307
GenerateGuidance ==
  /\ pc = "docs"
  /\ tree' = GenerateAgentsDoc(tree, opts, env)
  /\ log' = log \o ReadsOfAgentsDoc(opts) \o <<"docs">>
  /\ pc' = "handoff"
  /\ UNCHANGED <<opts, env, exitCode>>

\* main, lines 309-376: MCP install, git init and package install do not
\* stop the run when they fail
Handoff ==
  /\ pc = "handoff"
  /\ log' = log \o (IF opts.mcp THEN <<"mcp">> ELSE <<>>)
                \o (IF opts.git THEN <<"git">> ELSE <<>>)
                \o (IF opts.install THEN <<"install">> ELSE <<>>)
  /\ pc' = "done"
  /\ exitCode' = 0
  /\ UNCHANGED <<opts, env, tree>>

Next ==
  \/ Precheck
  \/ CopyTemplate
  \/ PatchAppPkg
  \/ ApplyRouterToggle
  \/ ApplyZustandToggle
  \/ ApplyPathAlias
  \/ GenerateGuidance
  \/ Handoff

AllTemplates == TemplateKinds \cup {"vue"}
Targets == {"absent", "empty", "nonempty"}

\* every configuration and environment, with the default alias, one custom
\* token and no token
Init ==
  InitOver(OptsOver(AllTemplates, {DefaultAlias, <<"a">>, <<>>}),
           EnvOver(Targets, ValidManifests \cup InvalidManifests, BOOLEAN, BOOLEAN))

Spec == Init /\ [][Next]_vars

\* every alias token up to MaxAliasLen and the reserved scope, on a
\* well-formed template
InitAlias ==
  InitOver(OptsOver(TemplateKinds, StringsUpTo(MaxAliasLen) \cup ReservedScopes),
           EnvOver({"absent"}, {ManifestOf("object", TRUE, FullDeps)}, BOOLEAN, {TRUE}))

SpecAlias == InitAlias /\ [][Next]_vars

\* target directory arguments: a plain name, a path whose last segment has
\* upper case and characters outside [a-z0-9-_.], a name made of such
\* characters only, and the root directory (which is never empty)
WideDirNames ==
  { <<"a", "p", "p">>,
    <<"o", "u", "t", "/", "M", "y", "_", "A", "!", "/">>,
    <<"!", "!">>,
    <<"/">> }

\* CVA_VALET_MINOR, cva.valetMinor and version as the tool can find them
MinorsOver(es) ==
  { [e EXCEPT !.envMinor = x, !.cfgMinor = y, !.toolVersion = v] :
      e \in es,
      x \in {<<>>, <<"0", ".", "31">>},
      y \in {<<>>, <<"0", ".", "29">>},
      v \in {<<"0", "30", "3">>, <<"1", "2", "0">>} }

\* every well-formed template manifest, in writeJSON's layout or another
ShippedManifests == ValidManifests \cup {Unformatted(m) : m \in ValidManifests}

\* the manifest stages over directory names, version sources and template
\* manifests
InitManifest ==
  /\ InitOver({[o EXCEPT !.dir = d] :
                 o \in OptsOver(TemplateKinds, {DefaultAlias}), d \in WideDirNames},
              MinorsOver(EnvOver({"absent", "nonempty"}, ShippedManifests, {TRUE}, {TRUE})))
  /\ (env.target = "nonempty") <=> (opts.dir = <<"/">>)

SpecManifest == InitManifest /\ [][Next]_vars

FaultsOver(es) == { [e EXCEPT !.fault = x] : e \in es, x \in Faults }

\* every configuration of the toggles with no failure or with one write or
\* deletion of a toggle failing
InitFault ==
  InitOver(OptsOver(TemplateKinds, {DefaultAlias}),
           FaultsOver(EnvOver({"absent"}, {ManifestOf("object", TRUE, FullDeps)},
                              {TRUE}, {TRUE})))

SpecFault == InitFault /\ [][Next]_vars

-----------------------------------------------------------------------------
(* The pipeline as a function of its inputs: what a run on (o, e) leaves   *)
(* in the target directory.                                                 *)

Generate(o, e) ==
  LET t0 == InitTree(e)
  IN  IF o.dir = <<>> \/ o.template \notin TemplateKinds \/ TargetNotEmpty(t0)
      THEN [ok |-> FALSE, tree |-> t0]
      ELSE LET t1 == CopyDir(MkdirTarget(t0), o.template, e)
               r  == PatchManifest(t1, o, e)
           IN  IF ~r.ok THEN [ok |-> FALSE, tree |-> t1]
               ELSE [ok |-> TRUE,
                     tree |-> GenerateAgentsDoc(
                                PathAlias(
                                  ZustandToggle(
                                    RouterToggle(EnsureGitignore(r.tree), o), o), o), o, e)]

HasDep(pkg, d) ==
  /\ pkg.present
  /\ pkg.kind = "object"
  /\ pkg.hasDeps
  /\ pkg.deps[d] # NoDep

HasToken(txt, tok) == \E i \in DOMAIN txt : txt[i] = tok

-----------------------------------------------------------------------------
(* C1: a non-empty target directory or an unknown template kind stops the  *)
(* run with exit code 1 before any stage: the target directory is exactly   *)
(* as it was found (nothing created, copied, written or deleted).           *)

C1_PreconditionAbortsBeforeAnyWrite ==
  (env.target = "nonempty" \/ opts.template \notin {"ts", "js", "hybrid"}) =>
     /\ pc \in {"start", "failed"}
     /\ pc = "failed" => exitCode = 1
     /\ tree = InitTree(env)
     /\ log = <<>>

C1_Witness ==
  /\ pc = "failed"
  /\ exitCode = 1
  /\ env.target = "nonempty"
  /\ opts.template \in TemplateKinds
  /\ tree.text[ForeignPath].present

-----------------------------------------------------------------------------
(* C2: a manifest that is missing, is not JSON, or is JSON but not an       *)
(* object stops the run right after the copy: no later stage runs and the   *)
(* tree stays as the copy left it.                                          *)

C2_InvalidManifestAborts ==
  (env.manifest \in InvalidManifests) =>
     /\ pc \in {"start", "copy", "patch", "failed"}
     /\ \A i \in DOMAIN log : log[i] = "copy"

-----------------------------------------------------------------------------
(* C3: with the router off, the final tree does not depend on minimal.     *)

OtherMinimal == Generate([opts EXCEPT !.minimal = ~@], env)

\* as claimed: the whole final tree, the rendered documentation included
C3_RouterOffIgnoresMinimal ==
  (pc = "done" /\ ~opts.router) => tree = OtherMinimal.tree

\* as amended: everything but the rendered documentation file, and that
\* file too when it is not rendered
C3_RouterOffIgnoresMinimalButDoc ==
  (pc = "done" /\ ~opts.router) =>
     /\ OtherMinimal.ok
     /\ [tree EXCEPT !.text[AgentsPath] = NoFile]
          = [OtherMinimal.tree EXCEPT !.text[AgentsPath] = NoFile]
     /\ ~(opts.mcp /\ env.baseReadable) => tree = OtherMinimal.tree

C3_Witness ==
  /\ pc = "done"
  /\ ~opts.router
  /\ opts.minimal
  /\ opts.mcp
  /\ env.baseReadable
  /\ tree.text[AgentsPath].present
  /\ tree.text[Files(opts.template).app].text = AppNoRouter(IsJS(opts.template))

-----------------------------------------------------------------------------
(* C4: with store=false the final tree has no store directory and the      *)
(* final manifest has no zustand entry, both in the same final state.       *)

C4_NoStoreNoDependency ==
  (pc = "done" /\ ~opts.zustand) =>
     /\ "src/store" \notin tree.dirs
     /\ \A p \in StoreDirPaths : ~tree.text[p].present
     /\ ~HasDep(tree.pkg, "zustand")

C4_Witness ==
  /\ pc = "done"
  /\ ~opts.zustand
  /\ HasDep(env.manifest, "zustand")
  /\ "src/store" \notin tree.dirs
  /\ tree.pkg.kind = "object"

-----------------------------------------------------------------------------
(* C5: with router=false the final tree has no secondary-page directory,   *)
(* the entry point and the root component import nothing from the router    *)
(* package, and the final manifest has no react-router-dom entry.           *)

C5_NoRouterNoSecondPage ==
  (pc = "done" /\ ~opts.router) =>
     LET f == Files(opts.template)
     IN  /\ "src/pages/second" \notin tree.dirs
         /\ \A p \in SecondDirPaths : ~tree.text[p].present
         /\ tree.text[f.main].present
         /\ tree.text[f.app].present
         /\ ~HasToken(tree.text[f.main].text, "react-router-dom")
         /\ ~HasToken(tree.text[f.app].text, "react-router-dom")
         /\ ~HasDep(tree.pkg, "react-router-dom")

C5_Witness ==
  /\ pc = "done"
  /\ ~opts.router
  /\ HasDep(env.manifest, "react-router-dom")
  /\ HasToken(TemplateTree(opts.template, env).text[Files(opts.template).main].text,
              "react-router-dom")
  /\ ~HasToken(tree.text[Files(opts.template).main].text, "react-router-dom")

-----------------------------------------------------------------------------
(* C6: with router=true and minimal=true the final root component is the   *)
(* single-route variant (one route, to the lazily loaded landing page,      *)
(* inside a Suspense fallback), the secondary-page directory is gone and    *)
(* the manifest keeps the router dependency it was copied with.             *)

C6_MinimalSingleRoute ==
  (pc = "done" /\ opts.router /\ opts.minimal) =>
     LET f   == Files(opts.template)
         app == tree.text[f.app]
     IN  /\ app.present
         /\ CountTok(app.text, "<Route path=") = 1
         /\ HasToken(app.text, "const QuickstartPage = page(() => import(")
         /\ HasToken(app.text, "pages/start/Quickstart")
         /\ HasToken(app.text, "<Suspense fallback={Fallback}>")
         /\ ~HasToken(app.text, "pages/second/SecondPage")
         /\ opts.pathAlias \in {<<>>, DefaultAlias}
              => app.text = AppRouterMinimal(IsJS(opts.template))
         /\ "src/pages/second" \notin tree.dirs
         /\ \A p \in SecondDirPaths : ~tree.text[p].present
         /\ HasDep(env.manifest, "react-router-dom")
              => /\ HasDep(tree.pkg, "react-router-dom")
                 /\ tree.pkg.deps["react-router-dom"] = env.manifest.deps["react-router-dom"]

C6_Witness ==
  /\ pc = "done"
  /\ opts.router
  /\ opts.minimal
  /\ HasDep(tree.pkg, "react-router-dom")
  /\ "src/pages/second" \notin tree.dirs
  /\ CountTok(tree.text[Files(opts.template).app].text, "<Route path=") = 1

-----------------------------------------------------------------------------
(* C7: with router=true, minimal=false and the default alias, the toggle   *)
(* stage leaves the entry point, the root component, the landing page and   *)
(* the secondary-page directory exactly as copied, whatever store is.       *)

AfterToggles == {"docs", "handoff", "done"}

C7_FullRouterLeavesPagesAsCopied ==
  (/\ pc \in {"zustand", "alias"} \cup AfterToggles
   /\ opts.router
   /\ ~opts.minimal
   /\ opts.pathAlias = DefaultAlias) =>
     LET f   == Files(opts.template)
         src == TemplateTree(opts.template, env)
     IN  /\ \A p \in {f.main, f.app, f.quickstart} \cup SecondDirPaths :
               tree.text[p] = src.text[p]
         /\ "src/pages/second" \in tree.dirs

C7_Witness ==
  /\ pc = "docs"
  /\ opts.router
  /\ ~opts.minimal
  /\ ~opts.zustand
  /\ opts.pathAlias = DefaultAlias
  /\ "src/store" \notin tree.dirs
  /\ tree.text[Files(opts.template).secondPage].present

-----------------------------------------------------------------------------
(* The alias rewrite, stated position by position: the "@" of every        *)
(* quote + "@" + "/" becomes the configured token, nothing else moves.      *)

QuotedAliasAt(txt, i) ==
  /\ i >= 2
  /\ i + 1 <= Len(txt)
  /\ txt[i - 1] \in {DQ, SQ}
  /\ txt[i] = "@"
  /\ txt[i + 1] = "/"

RECURSIVE SpliceFrom(_, _, _)
SpliceFrom(old, i, token) ==
  IF i > Len(old) THEN <<>>
  ELSE (IF QuotedAliasAt(old, i) THEN token ELSE <<old[i]>>)
         \o SpliceFrom(old, i + 1, token)

\* new is old with each quoted alias "@" replaced by some text
RECURSIVE OnlyAliasChanged(_, _, _, _)
OnlyAliasChanged(old, i, new, j) ==
  IF i > Len(old) THEN j = Len(new) + 1
  ELSE IF QuotedAliasAt(old, i)
  THEN \E k \in j..(Len(new) + 1) : OnlyAliasChanged(old, i + 1, new, k)
  ELSE /\ j <= Len(new)
       /\ new[j] = old[i]
       /\ OnlyAliasChanged(old, i + 1, new, j + 1)

CustomAlias == opts.pathAlias \notin {<<>>, DefaultAlias}

-----------------------------------------------------------------------------
(* C8: for every alias token t other than "@", the alias stage leaves the  *)
(* three sites in agreement: the Vite alias key is t, the path-mapping key  *)
(* is t/* with the value list of the former @/* entry, and the source       *)
(* imports that used "@/" use "t/".                                         *)

C8_AliasSitesAgree ==
  [][ (pc = "alias" /\ CustomAlias) =>
        LET f  == Files(opts.template)
            js == IsJS(opts.template)
            c  == IF js THEN f.jsconfig ELSE f.tsconfigApp
        IN  /\ tree'.text[f.viteConfig].text = ViteWithKey(js, opts.pathAlias)
            /\ tree'.conf[c].paths =
                 << [key  |-> opts.pathAlias \o <<"/", "*">>,
                     vals |-> tree.conf[c].paths[1].vals] >>
            /\ \A p \in SourcePaths :
                 tree'.text[p].text = SpliceFrom(tree.text[p].text, 1, opts.pathAlias)
    ]_vars

-----------------------------------------------------------------------------
(* C9: for every alias token t other than "@", after the alias stage no    *)
(* source file under src/ holds a quote character followed by "@/".         *)

C9_NoQuotedDefaultAliasLeft ==
  (pc \in AfterToggles /\ CustomAlias) =>
     \A p \in SourcePaths :
        tree.text[p].present =>
           ~\E i \in DOMAIN tree.text[p].text :
               IsPrefixAt(tree.text[p].text, i, <<DQ, "@", "/">>)
                 \/ IsPrefixAt(tree.text[p].text, i, <<SQ, "@", "/">>)

-----------------------------------------------------------------------------
(* C10: the source-tree rewrite changes nothing but the "@" of a quote +    *)
(* "@" + "/": every other character of every source file is kept, in        *)
(* order, the "@archway/valet" specifiers among them; a token without "$"   *)
(* takes the place of that "@" literally.                                   *)

C10_OnlyQuotedAliasPrefixChanges ==
  [][ (pc = "alias" /\ CustomAlias) =>
        \A p \in SourcePaths :
           /\ tree'.text[p].present = tree.text[p].present
           /\ OnlyAliasChanged(tree.text[p].text, 1, tree'.text[p].text, 1)
           /\ ~HasToken(opts.pathAlias, "$")
                => tree'.text[p].text = SpliceFrom(tree.text[p].text, 1, opts.pathAlias)
    ]_vars

C10_Witness ==
  /\ pc = "docs"
  /\ opts.pathAlias = <<"a", "/">>
  /\ opts.template = "ts"
  /\ Contains(tree.text["src/presets/globalPresets.ts"].text,
              <<"@", "/", " maps to src; import { definePreset } from ",
                DQ, "@", "archway/valet", DQ, "; import ", SQ, "a", "/", "/", "presets/fonts", SQ>>)

-----------------------------------------------------------------------------
(* C11: a run whose alias token is empty or is the reserved scope of a      *)
(* first-party dependency ("@archway") never has that token turned into     *)
(* alias keys or import prefixes: the alias stage leaves the Vite           *)
(* configuration, the path mapping and every source file as they were.      *)

C11_ReservedAliasNeverRewritten ==
  [][ (pc = "alias" /\ (opts.pathAlias = <<>> \/ opts.pathAlias \in ReservedScopes))
        => tree' = tree ]_vars

-----------------------------------------------------------------------------
(* C12: in the final tree the manifest name is the lowercased basename of   *)
(* the target directory argument with every character outside [a-z0-9-_.]   *)
(* replaced by "-" (or "valet-app" when that is empty); it is never empty   *)
(* and holds only characters of [a-z0-9-_.]; the later stages that rewrite  *)
(* the manifest keep it.                                                    *)

ExpectedName ==
  IF opts.dir = <<"a", "p", "p">> THEN <<"a", "p", "p">>
  ELSE IF opts.dir = <<"o", "u", "t", "/", "M", "y", "_", "A", "!", "/">>
  THEN <<"m", "y", "_", "a", "-">>
  ELSE IF opts.dir = <<"!", "!">> THEN <<"-", "-">>
  ELSE <<"v", "a", "l", "e", "t", "-", "a", "p", "p">>

C12_FinalManifestName ==
  pc = "done" =>
    /\ tree.pkg.present
    /\ tree.pkg.name = ExpectedName
    /\ tree.pkg.name # <<>>
    /\ \A i \in DOMAIN tree.pkg.name : tree.pkg.name[i] \in NameChars

C12_Witness ==
  /\ pc = "done"
  /\ opts.dir = <<"o", "u", "t", "/", "M", "y", "_", "A", "!", "/">>
  /\ ~opts.router
  /\ ~opts.zustand
  /\ tree.pkg.name = <<"m", "y", "_", "a", "-">>
  /\ ~HasDep(tree.pkg, "zustand")

-----------------------------------------------------------------------------
(* C13: a target directory name made only of characters outside             *)
(* [a-z0-9-_.] (after lowercasing) gives the manifest the fallback name     *)
(* "valet-app".                                                             *)

AllInvalid(dir) ==
  /\ Basename(dir) # <<>>
  /\ \A i \in DOMAIN Basename(dir) : ToLowerCase(Basename(dir)[i]) \notin NameChars

C13_AllInvalidNameFallsBack ==
  (AllInvalid(opts.dir) /\ pc \in {"router", "zustand", "alias", "docs", "handoff", "done"})
     => tree.pkg.name = FallbackName

-----------------------------------------------------------------------------
(* C14: in the final manifest the range of "@archway/valet" is "^" M ".0",  *)
(* M being CVA_VALET_MINOR when set, otherwise cva.valetMinor when set,     *)
(* otherwise major.minor of the tool's version, whatever the template       *)
(* manifest carried for it (a range, no entry, no dependency map).          *)

ExpectedMinor ==
  IF env.envMinor # <<>> THEN env.envMinor
  ELSE IF env.cfgMinor # <<>> THEN env.cfgMinor
  ELSE <<env.toolVersion[1], ".", env.toolVersion[2]>>

C14_ValetRangePinned ==
  pc = "done" =>
    /\ HasDep(tree.pkg, "@archway/valet")
    /\ tree.pkg.deps["@archway/valet"] = <<"^">> \o ExpectedMinor \o <<".0">>

C14_Witness ==
  /\ pc = "done"
  /\ ~env.manifest.hasDeps
  /\ env.envMinor = <<>>
  /\ env.cfgMinor = <<"0", ".", "29">>
  /\ tree.pkg.deps["@archway/valet"] = <<"^", "0", ".", "29", ".0">>

-----------------------------------------------------------------------------
(* C15: removing a dependency is idempotent: when the router or the store   *)
(* is switched off, a manifest that already lacks the dependency is left    *)
(* unchanged by the removal, and removing again (once or twice more) gives  *)
(* the manifest the first removal gave.                                     *)

RemovalIdempotent(dep) ==
  /\ ~HasDep(tree.pkg, dep) => tree'.pkg = tree.pkg
  /\ ~HasDep(tree'.pkg, dep)
  /\ SafePkgMutate(tree', dep).pkg = tree'.pkg
  /\ SafePkgMutate(SafePkgMutate(tree', dep), dep).pkg = tree'.pkg

C15_RemovalIdempotent ==
  [][ /\ (pc = "router" /\ ~opts.router) => RemovalIdempotent("react-router-dom")
      /\ (pc = "zustand" /\ ~opts.zustand) => RemovalIdempotent("zustand")
    ]_vars

C15_Witness ==
  /\ pc = "alias"
  /\ ~opts.zustand
  /\ ~opts.router
  /\ env.manifest = Unformatted(ManifestOf("object", TRUE, NoDeps))
  /\ tree.pkg.canonical
  /\ tree.pkg.hasDeps

-----------------------------------------------------------------------------
(* C16: when a write or a directory deletion of the router or store toggle  *)
(* fails, the run ends there with exit code 1: the alias rewrite, the       *)
(* documentation, git and the install never run, "done" is never reached,   *)
(* and the tree keeps every write made before the failing one (nothing is   *)
(* rolled back).                                                            *)

LaterStages == {"alias", "docs", "mcp", "git", "install"}

FaultDue ==
  /\ pc \in {"router", "zustand"}
  /\ env.fault.stage = pc
  /\ env.fault.op \in
        1..(Len(IF pc = "router" THEN RouterTrail(tree, opts)
                                 ELSE ZustandTrail(tree, opts)) - 1)

C16_ToggleFailureAborts ==
  /\ [][ /\ FaultDue =>
             /\ pc' = "failed"
             /\ exitCode' = 1
             /\ log' = log
             /\ tree' = (IF pc = "router" THEN RouterTrail(tree, opts)
                                          ELSE ZustandTrail(tree, opts))[env.fault.op]
         /\ pc = "failed" => FALSE
       ]_vars
  /\ [](pc = "failed" =>
          /\ exitCode = 1
          /\ \A i \in DOMAIN log : log[i] \notin LaterStages)

C16_Witness ==
  /\ pc = "failed"
  /\ exitCode = 1
  /\ env.fault = [stage |-> "zustand", op |-> 2]
  /\ ~opts.router
  /\ ~opts.zustand
  /\ opts.template = "ts"
  /\ tree.text["src/main.tsx"].text = MainNoRouter(FALSE)
  /\ "src/pages/second" \notin tree.dirs
  /\ ~HasDep(tree.pkg, "zustand")
  /\ "src/store" \in tree.dirs
  /\ log = <<"copy", "manifest", "router">>

-----------------------------------------------------------------------------
(* C17: when AGENTS.md is requested and templates/AGENTS.base.md cannot be  *)
(* read, the run aborts: it never gets past the documentation stage, and a  *)
(* finished run never holds an AGENTS.md that is the copy shipped in the    *)
(* template tree.                                                           *)

C17_UnreadableDocTemplateAborts ==
  (opts.mcp /\ ~env.baseReadable) =>
     /\ pc \notin {"handoff", "done"}
     /\ pc = "done" => tree.text[AgentsPath] # File(TmplAgents)

-----------------------------------------------------------------------------
(* C18: when AGENTS.md is not requested, the tree after the documentation   *)
(* stage holds no AGENTS.md, whether or not the template tree shipped one,  *)
(* and templates/AGENTS.base.md is never read.                              *)

C18_NoDocWhenNotRequested ==
  (~opts.mcp /\ pc \in {"handoff", "done"}) =>
     /\ ~tree.text[AgentsPath].present
     /\ \A i \in DOMAIN log : log[i] # "readBase"

C18_Witness ==
  /\ pc = "done"
  /\ ~opts.mcp
  /\ env.tmplExtras
  /\ TemplateTree(opts.template, env).text[AgentsPath].present
  /\ ~tree.text[AgentsPath].present
  /\ log = <<"copy", "manifest", "router", "zustand", "alias", "docs", "git", "install">>

-----------------------------------------------------------------------------
(* C19: a rendered AGENTS.md states the configuration as it is: "Router"    *)
(* and "Zustand" read enabled exactly when the flag is on, "Minimal mode"   *)
(* reads on exactly when minimal is set, and the alias line shows the alias *)
(* token in use.                                                            *)

Rendered == pc \in {"handoff", "done"} /\ opts.mcp /\ env.baseReadable

AliasInUse == IF opts.pathAlias # <<>> THEN opts.pathAlias ELSE DefaultAlias

C19_FeatureSummaryAsConfigured ==
  Rendered =>
    LET doc == tree.text[AgentsPath].text
    IN  /\ tree.text[AgentsPath].present
        /\ Contains(doc, <<"- Router: ", IF opts.router THEN "enabled" ELSE "disabled">>)
        /\ Contains(doc, <<"- Zustand: ", IF opts.zustand THEN "enabled" ELSE "disabled">>)
        /\ Contains(doc, <<"- Minimal mode: ", IF opts.minimal THEN "on" ELSE "off">>)
        /\ Contains(doc, <<"- Path alias token: ", BT>> \o AliasInUse
                            \o <<BT, " (import from ", BT>> \o AliasInUse \o <<"/", "...", BT, ")">>)

-----------------------------------------------------------------------------
(* C20: in a rendered AGENTS.md the command list holds the typecheck        *)
(* command exactly when the template is not "js", and the definition of     *)
(* done holds the typecheck requirement exactly when the template is not    *)
(* "js" ("hybrid" has both).                                                *)

InSection(doc, header, tok) ==
  \E i \in DOMAIN doc : \E j \in DOMAIN doc :
     /\ i < j
     /\ doc[i] = header
     /\ doc[j] = tok
     /\ \A k \in (i + 1)..(j - 1) : doc[k] \notin
           {" ## Project Features ", " ## Definition of Done (Agents) "}

C20_TypecheckOnlyWhenNotJS ==
  Rendered =>
    LET doc == tree.text[AgentsPath].text
        cmd == " ## valet-mcp ... ## Agent-Friendly Commands "
        dod == " ## Definition of Done (Agents) "
    IN  IF opts.template = "js"
        THEN /\ ~HasToken(doc, TypecheckCommand)
             /\ ~HasToken(doc, TypecheckDone)
        ELSE /\ InSection(doc, cmd, TypecheckCommand)
             /\ \E i \in DOMAIN doc : \E j \in DOMAIN doc :
                   i < j /\ doc[i] = dod /\ doc[j] = TypecheckDone

C20_Witness ==
  /\ pc = "done"
  /\ opts.mcp
  /\ opts.template = "hybrid"
  /\ HasToken(tree.text[AgentsPath].text, TypecheckCommand)
  /\ HasToken(tree.text[AgentsPath].text, TypecheckDone)
  /\ HasToken(tree.text[AgentsPath].text,
              "This is a hybrid template: TypeScript by default, JavaScript files allowed.")

-----------------------------------------------------------------------------
(* C21: with an alias token other than "@" and a tsconfig.app.json or       *)
(* jsconfig.json that does not parse, the alias stage does not fail: in     *)
(* that file the quoted key "@/*" becomes the quoted key of the token and   *)
(* nothing else changes, the source files are rewritten in the same step,   *)
(* and the documentation stage runs after it.                               *)

ConfOf(template) ==
  IF IsJS(template) THEN Files(template).jsconfig ELSE Files(template).tsconfigApp

C21_UnparseableConfigDegrades ==
  [][ /\ (pc = "alias" /\ CustomAlias /\ ~tree.conf[ConfOf(opts.template)].parses) =>
           LET c == ConfOf(opts.template)
           IN  /\ pc' = "docs"
               /\ exitCode' = Running
               /\ log' = Append(log, "alias")
               /\ tree'.conf[c] =
                     [tree.conf[c] EXCEPT
                        !.paths = << [key  |-> opts.pathAlias \o <<"/", "*">>,
                                      vals |-> tree.conf[c].paths[1].vals] >>]
               /\ \A d \in ConfPaths \ {c} : tree'.conf[d] = tree.conf[d]
               /\ \A p \in SourcePaths :
                     /\ OnlyAliasChanged(tree.text[p].text, 1, tree'.text[p].text, 1)
                     /\ ~HasToken(opts.pathAlias, "$") =>
                          tree'.text[p].text = SpliceFrom(tree.text[p].text, 1, opts.pathAlias)
      /\ (pc = "docs" /\ CustomAlias /\ ~env.confParses) =>
           /\ pc' = "handoff"
           /\ log'[Len(log')] = "docs"
           /\ tree' = GenerateAgentsDoc(tree, opts, env)
    ]_vars

C21_Witness ==
  /\ pc = "handoff"
  /\ opts.pathAlias = <<"a", "$">>
  /\ opts.template = "ts"
  /\ opts.mcp
  /\ ~env.confParses
  /\ tree.conf["tsconfig.app.json"] =
        [present |-> TRUE, parses |-> FALSE, hasPaths |-> TRUE,
         paths |-> << [key |-> <<"a", "$", "/", "*">>, vals |-> << <<"src", "/", "*">> >>] >>]
  /\ tree.text[AgentsPath].present

-----------------------------------------------------------------------------
(* C22: the stages of a run happen in the order copy, manifest patch,       *)
(* router and store toggles, alias rewrite, documentation, one at a time     *)
(* and none skipped or repeated; when the alias rewrite starts every         *)
(* whole-file replacement and deletion of the toggles is in the tree; MCP,   *)
(* git and install start only when all of these stages are over, and the     *)
(* step that starts them writes nothing to the manifest or the tree.         *)

StageOrder ==
  <<"copy", "manifest", "router", "zustand", "alias", "readBase", "docs",
    "mcp", "git", "install">>

TreeStages == <<"copy", "manifest", "router", "zustand", "alias", "docs">>

StageRank(x) == CHOOSE n \in DOMAIN StageOrder : StageOrder[n] = x

TreeStagesOf(l) ==
  LET IsTreeStage(x) == \E n \in DOMAIN TreeStages : TreeStages[n] = x
  IN  SelectSeq(l, IsTreeStage)

HandedOff(l) == \E i \in DOMAIN l : l[i] \in {"mcp", "git", "install"}

C22_StagesInOrder ==
  /\ [](/\ \A i \in DOMAIN log : \E n \in DOMAIN StageOrder : StageOrder[n] = log[i]
        /\ \A i \in DOMAIN log : \A j \in DOMAIN log :
              i < j => StageRank(log[i]) < StageRank(log[j])
        /\ TreeStagesOf(log) = SubSeq(TreeStages, 1, Len(TreeStagesOf(log)))
        /\ HandedOff(log) => TreeStagesOf(log) = TreeStages
        /\ pc = "alias" => /\ RouterToggle(tree, opts) = tree
                           /\ ZustandToggle(tree, opts) = tree)
  /\ [][ /\ Len(TreeStagesOf(log')) <= Len(TreeStagesOf(log)) + 1
         /\ HandedOff(log') => (tree' = tree /\ TreeStagesOf(log) = TreeStages)
       ]_vars

C22_Witness ==
  /\ pc = "done"
  /\ log = StageOrder
  /\ ~opts.router
  /\ ~opts.zustand
  /\ opts.pathAlias = <<"a">>
  /\ opts.template = "ts"
  /\ Contains(tree.text["src/main.tsx"].text, <<DQ, "a", "/", "App", DQ>>)
  /\ ~Contains(tree.text["src/main.tsx"].text, <<DQ, "@", "/">>)
  /\ tree.text[AgentsPath].present

=============================================================================
